---------------------------- MODULE Spec2Model ----------------------------
(***************************************************************************)
(* Model of the tank drive controller firmware, latest revision of         *)
(* src/Drive_controller/Drive_controller.ino (lines 412-1057): Range, the  *)
(* Animation strategies, Animatable, Device, LED, Motor, HallSensor,       *)
(* TankState, the command table and setup()/loop().                        *)
(*                                                                         *)
(* Target is an Arduino Nano (ATmega328): int is 16 bits, long and         *)
(* unsigned long are 32 bits.                                              *)
(***************************************************************************)
EXTENDS Integers, Sequences, FiniteSets, TLC

VARIABLES
    clock,          \* what Utils::now() (millis()) returns at this moment
    pc,             \* position of the main program: "setup", "loop" (about to
                    \* run loop()), "sync" (in loop(), about to call
                    \* state.sync), "idle" (state.sync has returned)
    now,            \* loop(): long now
    commandCode,    \* loop(): String commandCode
    pAnimation,     \* Animatable::pAnimation of each actuator (the object it points to)
    value,          \* Motor::speed / LED::brightness of each actuator
    error,          \* Motor::error
    pins,           \* last levels written to a motor's INA, INB and PWM pins
    lastSyncTimeMillis, \* Device::lastSyncTimeMillis
    showStatus,     \* TankState::showStatus
    rpm,            \* HallSensor::rpm
    lastTimeMillis, \* HallSensor::lastTimeMillis
    halfRevolutions,\* HallSensor::halfRevolutions[4]
    faultShown,     \* history: the fault blink installed when the current fault
                    \* was first detected, and whether the fault has persisted
                    \* over a later tick
    snapshot,       \* what the latest state.sync printed on Serial: << >> or
                    \* the status snapshot (the actuators' values)
    harness         \* the driver of the specification: the actuator or the
                    \* animation under test, its inputs and results

vars == << clock, pc, now, commandCode, pAnimation, value, error, pins,
           lastSyncTimeMillis, showStatus, rpm, lastTimeMillis, halfRevolutions,
           faultShown, snapshot, harness >>

tankVars == << clock, pc, now, commandCode, pAnimation, value, error, pins,
               lastSyncTimeMillis, showStatus, rpm, lastTimeMillis, halfRevolutions,
               faultShown, snapshot >>

---------------------------------------------------------------------------
(* Bounds of the model *)

\* the clock stops advancing here
MaxTime == 1000

\* milliseconds that may pass between the clock reads of two successive
\* iterations of loop()
Steps == {249, 500}

\* milliseconds that may pass between loop()'s clock read and the clock
\* reads of the mutators it calls
Skews == {0, 1}

\* the clock of the specification that ticks the devices one by one stops
\* here
MaxTicksTime == 1000

\* milliseconds between two iterations of loop() in that specification
TicksSteps == {500}

\* the clock of the specification of the LED commands stops here
MaxLightsTime == 1500

\* milliseconds between two iterations of loop() in that specification
LightsSteps == {250, 500}

\* the clock of the specifications that drive one actuator or one animation
MaxApiTime == 3

\* milliseconds between two calls in those specifications
ApiSteps == {0, 1, 2}

\* arguments of the mutators: values, durations, periods and duty cycles,
\* in and out of the actuators' ranges, up to the ends of int
ApiValues == {-32768, -100, -99, 0, 50, 99, 100, 32767}

ApiDurations == {1, 3}

ApiPeriods == {1, 2, 3}

ApiDuties == {-1, 0, 50, 100, 101}

\* the actuators driven directly: one motor and one LED
ApiActuators == {"motorLeft", "ledLeftFront"}

\* levels the motors' enable (fault) lines may read
Levels == {"LOW", "HIGH"}

\* what the build may do where the code overflows a signed int (undefined
\* behaviour): wrap around, or compute the exact value in a wider register
Overflows == {"wrap", "exact"}

---------------------------------------------------------------------------
(* Devices owned by TankState *)

Motors == {"motorLeft", "motorRight"}

Leds == {"ledLeftFront", "ledRightFront", "ledLeftRear", "ledRightRear"}

HallSensors == {"motorLeftHs1", "motorLeftHs2", "motorRightHs1", "motorRightHs2"}

Actuators == Motors \cup Leds

\* the devices registered in the order a reader may expect
devices_ledsFirst ==
    << "motorLeft", "motorRight",
       "ledLeftFront", "ledRightFront", "ledLeftRear", "ledRightRear",
       "motorLeftHs1", "motorLeftHs2", "motorRightHs1", "motorRightHs2" >>

devices == << "motorLeft", "motorRight",
              "motorLeftHs1", "motorLeftHs2", "motorRightHs1", "motorRightHs2",
              "ledLeftFront", "ledRightFront", "ledLeftRear", "ledRightRear" >>

Devices == Motors \cup HallSensors \cup Leds

\* HallSensor::id, as the constructor calls in TankState set it
hallId(h) ==
    CASE h = "motorLeftHs1"  -> 0
      [] h = "motorLeftHs2"  -> 1
      [] h = "motorRightHs1" -> 2
      [] h = "motorRightHs2" -> 3

\* the sensor whose counter is halfRevolutions[i]
hallOfId(i) == CHOOSE h \in HallSensors : hallId(h) = i

updatePeriodMillis == 1000

---------------------------------------------------------------------------
(* Machine arithmetic *)

Abs(x) == IF x < 0 THEN -x ELSE x

\* C++ integer division: truncates toward zero
CDiv(a, b) ==
    IF (a >= 0) = (b > 0) THEN Abs(a) \div Abs(b) ELSE -(Abs(a) \div Abs(b))

IntMin == -32768

IntMax == 32767

\* conversion of a wider value to a 16-bit int
ToInt(x) == ((x + 32768) % 65536) - 32768

\* int - int; ub is what the build does should it overflow
IntSub(x, y, ub) ==
    IF x - y >= IntMin /\ x - y <= IntMax THEN x - y
    ELSE IF ub = "wrap" THEN ToInt(x - y) ELSE x - y

\* int * int
IntMul(x, y, ub) ==
    IF x * y >= IntMin /\ x * y <= IntMax THEN x * y
    ELSE IF ub = "wrap" THEN ToInt(x * y) ELSE x * y

\* 2^32 mod p, for 0 < p <= 32767
TwoPow32Mod(p) == ((65536 % p) * (65536 % p)) % p

\* (unsigned long)(d) % p for a long d and an unsigned long p, 0 < p <= 32767
ULongMod(d, p) ==
    IF d >= 0 THEN d % p ELSE (TwoPow32Mod(p) + (d % p)) % p

---------------------------------------------------------------------------
(* Range *)

Range(minValue, maxValue) == [minValue |-> minValue, maxValue |-> maxValue]

\* a clamp that forgets the lower bound
fit_upperOnly(range, v) ==
    IF v >= range.maxValue THEN range.maxValue ELSE v

fit(range, v) ==
    IF v >= range.maxValue THEN range.maxValue
    ELSE IF v <= range.minValue THEN range.minValue ELSE v

---------------------------------------------------------------------------
(* Animation strategies *)

ConstValue(startTimeMillis, v) ==
    [kind |-> "ConstValue", startTimeMillis |-> startTimeMillis, value |-> v]

LinearAnimation(startTimeMillis, startValue, endValue, durationMillis) ==
    [kind |-> "LinearAnimation", startTimeMillis |-> startTimeMillis,
     startValue |-> startValue, endValue |-> endValue,
     durationMillis |-> durationMillis]

BlinkingAnimation(startTimeMillis, range, periodMillis, dutyCycle) ==
    [kind |-> "BlinkingAnimation", startTimeMillis |-> startTimeMillis,
     range |-> range, periodMillis |-> periodMillis,
     dutyCycle |-> fit(Range(0, 100), ToInt(dutyCycle))]

ConstCalcValue(a, timeMillis) == a.value

LinearCalcValue(a, timeMillis, ub) ==
    LET startTimeMillis == a.startTimeMillis
    IN  IF timeMillis >= startTimeMillis
           /\ timeMillis < startTimeMillis + a.durationMillis
        THEN ToInt(a.startValue
                   + CDiv((timeMillis - startTimeMillis)
                            * IntSub(a.endValue, a.startValue, ub),
                          a.durationMillis))
        ELSE IF timeMillis >= startTimeMillis + a.durationMillis
             THEN a.endValue
             ELSE a.startValue

\* a blink whose high part is one millisecond too long
BlinkCalcValue_inclusive(a, timeMillis) ==
    LET phase == ULongMod(timeMillis - a.startTimeMillis, a.periodMillis)
    IN  IF phase <= (a.periodMillis * a.dutyCycle) \div 100
        THEN a.range.maxValue
        ELSE a.range.minValue

\* a blink that starts its cycle low
BlinkCalcValue_inverted(a, timeMillis) ==
    LET phase == ULongMod(timeMillis - a.startTimeMillis, a.periodMillis)
    IN  IF phase < (a.periodMillis * a.dutyCycle) \div 100
        THEN a.range.minValue
        ELSE a.range.maxValue

BlinkCalcValue(a, timeMillis) ==
    LET phase == ULongMod(timeMillis - a.startTimeMillis, a.periodMillis)
    IN  IF phase < (a.periodMillis * a.dutyCycle) \div 100
        THEN a.range.maxValue
        ELSE a.range.minValue

calcValue(a, timeMillis, ub) ==
    CASE a.kind = "ConstValue"        -> ConstCalcValue(a, timeMillis)
      [] a.kind = "LinearAnimation"   -> LinearCalcValue(a, timeMillis, ub)
      [] a.kind = "BlinkingAnimation" -> BlinkCalcValue(a, timeMillis)

---------------------------------------------------------------------------
(* Animatable, LED, Motor *)

getRange(d) == IF d \in Motors THEN Range(-99, 99) ELSE Range(0, 99)

\* a setter that stores the value as given
setValue_unclamped(d, v) == v

\* LED::setValue / Motor::setValue
setValue(d, v) == fit(getRange(d), v)

\* Animatable::onSync: the value the actuator holds after the tick
AnimatableOnSync(d, t, ub) == setValue(d, calcValue(pAnimation[d], t, ub))

\* The mutators replace the animation of actuator d in the table A of
\* animations; each stamps the new animation with its own clock read t.
setValueNow(A, d, t, newValue) ==
    [A EXCEPT ![d] = ConstValue(t, newValue)]

\* an animateLinearly that starts from the target of the ramp it replaces
animateLinearly_chained(A, d, t, newValue, durationMillis) ==
    [A EXCEPT ![d] = LinearAnimation(t,
                                     IF A[d].kind = "LinearAnimation"
                                     THEN A[d].endValue ELSE value[d],
                                     newValue, durationMillis)]

animateLinearly(A, d, t, newValue, durationMillis) ==
    [A EXCEPT ![d] = LinearAnimation(t, value[d], newValue, durationMillis)]

animateMeander(A, d, t, periodMillis, dutyCycle) ==
    [A EXCEPT ![d] = BlinkingAnimation(t, getRange(d), periodMillis, dutyCycle)]

\* a stopAnimation that leaves the animation running
stopAnimation_keepsRunning(A, d, t) == A

stopAnimation(A, d, t) == setValueNow(A, d, t, value[d])

\* Motor::onSync, the part after Animatable::onSync: pwm and the pin writes
MotorPwm(speed, ub) == CDiv(IntMul(speed, 255, ub), getRange("motorLeft").maxValue)

\* direction pins driven from the wrong comparisons
MotorPins_bothOnReverse(speed, ub) ==
    LET pwm == MotorPwm(speed, ub)
    IN  [inA |-> IF pwm < 0 THEN "HIGH" ELSE "LOW",
         inB |-> IF pwm # 0 THEN "HIGH" ELSE "LOW",
         pwm |-> pwm]

\* what Motor::onSync writes: digitalWrite(pinInA, ..), digitalWrite(pinInB,
\* ..) and analogWrite(pinPwm, pwm), pwm being the value passed
MotorPins(speed, ub) ==
    LET pwm == MotorPwm(speed, ub)
    IN  [inA |-> IF pwm < 0 THEN "HIGH" ELSE "LOW",
         inB |-> IF pwm > 0 THEN "HIGH" ELSE "LOW",
         pwm |-> pwm]

\* Motor::onSync: error = LOW == digitalRead(pinEN)
MotorError(m, wasError, level) == "LOW" = level

---------------------------------------------------------------------------
(* TankState commands, as transformations of the table of animations;    *)
(* t is what Utils::now() returns while the command runs                   *)

stop(A, t) == setValueNow(setValueNow(A, "motorLeft", t, 0), "motorRight", t, 0)

\* a leftMotor that sets both motors
leftMotor_both(A, t, speed) ==
    setValueNow(setValueNow(A, "motorLeft", t, speed), "motorRight", t, speed)

leftMotor(A, t, speed) == setValueNow(A, "motorLeft", t, speed)

rightMotor(A, t, speed) == setValueNow(A, "motorRight", t, speed)

\* lights that ramp twice as fast
lights_fast(A, t, on) ==
    LET v == IF on THEN 99 ELSE 0
    IN  animateLinearly(
          animateLinearly(
            animateLinearly(
              animateLinearly(A, "ledLeftFront", t, v, 500),
              "ledRightFront", t, v, 500),
            "ledLeftRear", t, v, 500),
          "ledRightRear", t, v, 500)

lights(A, t, on) ==
    LET v == IF on THEN 99 ELSE 0
        duration == 1000
    IN  animateLinearly(
          animateLinearly(
            animateLinearly(
              animateLinearly(A, "ledLeftFront", t, v, duration),
              "ledRightFront", t, v, duration),
            "ledLeftRear", t, v, duration),
          "ledRightRear", t, v, duration)

blinkRight(A, t) ==
    LET periodMillis == 1000
        dutyCycle == 50
    IN  setValueNow(
          setValueNow(
            animateMeander(
              animateMeander(A, "ledRightFront", t, periodMillis, dutyCycle),
              "ledRightRear", t, periodMillis, dutyCycle),
            "ledLeftFront", t, 0),
          "ledLeftRear", t, 0)

\* a blinkLeft that forgets the opposite side
blinkLeft_keepsRight(A, t) ==
    animateMeander(
      animateMeander(A, "ledLeftFront", t, 1000, 50),
      "ledLeftRear", t, 1000, 50)

blinkLeft(A, t) ==
    LET periodMillis == 1000
        dutyCycle == 50
    IN  setValueNow(
          setValueNow(
            animateMeander(
              animateMeander(A, "ledLeftFront", t, periodMillis, dutyCycle),
              "ledLeftRear", t, periodMillis, dutyCycle),
            "ledRightFront", t, 0),
          "ledRightRear", t, 0)

\* a blinkError that reuses the turn-signal period
blinkError_slow(A, t) ==
    animateMeander(
      animateMeander(
        animateMeander(
          animateMeander(A, "ledRightFront", t, 1000, 50),
          "ledRightRear", t, 1000, 50),
        "ledLeftFront", t, 1000, 50),
      "ledLeftRear", t, 1000, 50)

blinkError(A, t) ==
    LET periodMillis == 500
        dutyCycle == 50
    IN  animateMeander(
          animateMeander(
            animateMeander(
              animateMeander(A, "ledRightFront", t, periodMillis, dutyCycle),
              "ledRightRear", t, periodMillis, dutyCycle),
            "ledLeftFront", t, periodMillis, dutyCycle),
          "ledLeftRear", t, periodMillis, dutyCycle)

\* a recover that clears nothing
recover_nothing(E) == E

\* TankState::recover: Motor::cleanError on both motors
recover(E) == [m \in Motors |-> FALSE]

\* a status snapshot printed on every sync
statusSnapshot_always(flag, V) == << V >>

\* TankState::sync, the status part: the lines printed when showStatus is set,
\* "Motor(L=,R=)" and "LED(LF=,RF=,LR=,RR=)" of the actuators' getValue() V
statusSnapshot(flag, V) == IF flag THEN << V >> ELSE << >>

\* TankState::sync, the fault branch: applied when a motor reports an error
faultBranch(A, t) == blinkError(stop(A, t), t)

\* HallSensor::onSync
HallRpm(count, elapsed, ub) ==
    ToInt(CDiv(CDiv(IntMul(IntMul(count, 1000, ub), 60, ub), 2), elapsed))

---------------------------------------------------------------------------
(* The command table *)

CommandCodes == {"5", "6", "4", "8", "2", "L", "O", "BR", "BL", "R", "S"}

\* what loop() may receive: nothing, a known code, or an unknown code
ReceivedCodes == CommandCodes \cup {"", "X"}

\* Commands::findByCode followed by Command::apply, on the animations
applyAnimations(code, A, t) ==
    CASE code = "5"  -> stop(A, t)
      [] code = "6"  -> rightMotor(leftMotor(A, t, 50), t, 0)
      [] code = "4"  -> rightMotor(leftMotor(A, t, 0), t, 50)
      [] code = "8"  -> rightMotor(leftMotor(A, t, 99), t, 99)
      [] code = "2"  -> rightMotor(leftMotor(A, t, -25), t, -25)
      [] code = "L"  -> lights(A, t, TRUE)
      [] code = "O"  -> lights(A, t, FALSE)
      [] code = "BR" -> blinkRight(A, t)
      [] code = "BL" -> blinkLeft(A, t)
      [] OTHER       -> A

\* ... on the motors' error flags
applyError(code, E) == IF code = "R" THEN recover(E) ELSE E

\* ... on TankState::showStatus
applyStatus(code, flag) == IF code = "S" THEN TRUE ELSE flag

---------------------------------------------------------------------------
(* State after construction of the globals *)

InitTank ==
    /\ clock = 0
    /\ pc = "setup"
    /\ now = 0
    /\ commandCode = ""
    /\ pAnimation = [d \in Actuators |-> ConstValue(0, 0)]
    /\ value = [d \in Actuators |-> 0]
    /\ error = [m \in Motors |-> FALSE]
    /\ pins = [m \in Motors |-> [inA |-> "LOW", inB |-> "LOW", pwm |-> 0]]
    /\ lastSyncTimeMillis = [d \in Devices |-> 0]
    /\ showStatus = FALSE
    /\ rpm = [h \in HallSensors |-> 0]
    /\ lastTimeMillis = [h \in HallSensors |-> 0]
    /\ halfRevolutions = [i \in 0..3 |-> 0]
    /\ faultShown = [start |-> -1, persisted |-> FALSE]
    /\ snapshot = << >>

Init ==
    /\ InitTank
    /\ harness = << >>

---------------------------------------------------------------------------
(* setup() and loop() *)

\* setup(): state.init(), io.init(), the two log lines
Setup ==
    /\ pc = "setup"
    /\ pc' = "loop"
    /\ UNCHANGED << clock, now, commandCode, pAnimation, value, error,
                    pins, lastSyncTimeMillis, showStatus, rpm, lastTimeMillis,
                    halfRevolutions, faultShown, snapshot, harness >>

\* loop() up to the call of state.sync: commandCode = io.getData(...),
\* now = Utils::now(), then commands.findByCode(commandCode).apply(state),
\* whose mutators read the clock themselves, skew milliseconds later.
\* "" (nothing received) skips the lookup, an unknown code finds the NOP
\* command.
LoopCommand(skew, code) ==
    /\ pc = "loop"
    /\ clock + skew <= MaxTime
    /\ now' = clock
    /\ clock' = clock + skew
    /\ commandCode' = code
    /\ pAnimation' = applyAnimations(code, pAnimation, clock')
    /\ error' = applyError(code, error)
    /\ showStatus' = applyStatus(code, showStatus)
    /\ pc' = "sync"
    /\ UNCHANGED << value, pins, lastSyncTimeMillis, rpm, lastTimeMillis,
                    halfRevolutions, faultShown, snapshot, harness >>

\* TankState::sync(now): every device is ticked, then the fault check, then
\* the status snapshot; loop() then returns. en is what the motors' enable inputs read during
\* this tick. (Motor::current, the current-sense sample, is written on every
\* tick and read only by Motor::state(), which nothing calls: it is left out.)
TankSync(en, ub) ==
    LET due(h) == now > lastTimeMillis[h] + updatePeriodMillis
        fault == error'["motorLeft"] \/ error'["motorRight"]
    IN  /\ value' = [d \in Actuators |-> AnimatableOnSync(d, now, ub)]
        /\ error' = [m \in Motors |-> MotorError(m, error[m], en[m])]
        /\ pins' = [m \in Motors |-> MotorPins(value'[m], ub)]
        /\ lastSyncTimeMillis' = [d \in Devices |-> now]
        /\ rpm' = [h \in HallSensors |->
                     IF due(h)
                     THEN HallRpm(halfRevolutions[hallId(h)], now - lastTimeMillis[h], ub)
                     ELSE rpm[h]]
        /\ lastTimeMillis' = [h \in HallSensors |->
                                IF due(h) THEN now ELSE lastTimeMillis[h]]
        /\ halfRevolutions' = [i \in 0..3 |->
                                 IF due(hallOfId(i)) THEN 0 ELSE halfRevolutions[i]]
        /\ pAnimation' = IF fault THEN faultBranch(pAnimation, clock) ELSE pAnimation
        /\ faultShown' = IF ~fault THEN [start |-> -1, persisted |-> FALSE]
                         ELSE IF faultShown.start = -1
                              THEN [start |-> clock, persisted |-> FALSE]
                              ELSE [faultShown EXCEPT !.persisted = TRUE]
        /\ snapshot' = statusSnapshot(showStatus, value')
        /\ showStatus' = FALSE

\* The outcomes of signed overflow to tell apart in this tick: overflow is
\* only possible in a ramp whose span does not fit an int and in the rpm of
\* a hall sensor that has counted; elsewhere both outcomes are the same tick.
SyncOverflows ==
    IF \/ \E d \in Actuators :
             /\ pAnimation[d].kind = "LinearAnimation"
             /\ Abs(pAnimation[d].endValue - pAnimation[d].startValue) > IntMax
       \/ \E i \in 0..3 : halfRevolutions[i] > 0
    THEN Overflows
    ELSE {"exact"}

\* loop(), the call of state.sync(now) and the return
Sync ==
    /\ pc = "sync"
    /\ pc' = "idle"
    /\ \E en \in [Motors -> Levels], ub \in SyncOverflows : TankSync(en, ub)
    /\ UNCHANGED << clock, now, commandCode, harness >>

\* loop() returns; the next iteration reads the clock d milliseconds after
\* this one did.
Idle(d) ==
    /\ pc = "idle"
    /\ now + d >= clock
    /\ now + d <= MaxTime
    /\ clock' = now + d
    /\ commandCode' = ""
    /\ snapshot' = << >>
    /\ pc' = "loop"
    /\ UNCHANGED << now, pAnimation, value, error, pins,
                    lastSyncTimeMillis, showStatus, rpm, lastTimeMillis,
                    halfRevolutions, faultShown, harness >>

Next ==
    \/ Setup
    \/ \E skew \in Skews, code \in ReceivedCodes : LoopCommand(skew, code)
    \/ Sync
    \/ \E d \in Steps : Idle(d)

Spec == Init /\ [][Next]_vars

---------------------------------------------------------------------------
(* SpecLights: setup() and loop() receiving LED commands only, with no     *)
(* motor fault, over a clock long enough for a ramp that starts after an   *)
(* earlier LED command to end                                              *)

LedCodes == {"", "L", "O", "BL", "BR"}

LightsLoop(code) ==
    /\ pc = "loop"
    /\ now' = clock
    /\ commandCode' = code
    /\ pAnimation' = applyAnimations(code, pAnimation, clock)
    /\ error' = applyError(code, error)
    /\ showStatus' = applyStatus(code, showStatus)
    /\ pc' = "sync"
    /\ UNCHANGED << clock, value, pins, lastSyncTimeMillis, rpm, lastTimeMillis,
                    halfRevolutions, faultShown, snapshot, harness >>

LightsSync ==
    /\ pc = "sync"
    /\ pc' = "idle"
    /\ TankSync([m \in Motors |-> "HIGH"], "exact")
    /\ UNCHANGED << clock, now, commandCode, harness >>

LightsIdle(d) ==
    /\ pc = "idle"
    /\ now + d <= MaxLightsTime
    /\ clock' = now + d
    /\ commandCode' = ""
    /\ snapshot' = << >>
    /\ pc' = "loop"
    /\ UNCHANGED << now, pAnimation, value, error, pins,
                    lastSyncTimeMillis, showStatus, rpm, lastTimeMillis,
                    halfRevolutions, faultShown, harness >>

NextLights ==
    \/ Setup
    \/ \E code \in LedCodes : LightsLoop(code)
    \/ LightsSync
    \/ \E d \in LightsSteps : LightsIdle(d)

SpecLights == Init /\ [][NextLights]_vars

---------------------------------------------------------------------------
(* SpecTicks: setup() and loop() with TankState::init and TankState::sync  *)
(* run one device at a time. harness records the run: the index of the     *)
(* next device in the loop over devices (i), how often each device was     *)
(* initialised (inits), the devices the current init() or sync() call has  *)
(* visited so far, in order (order), and the syncs completed in the        *)
(* current iteration of loop() (syncs).                                    *)

TicksCodes == {"", "X", "8", "L", "R", "S"}

InitTicks ==
    /\ InitTank
    /\ harness = [i |-> 1, inits |-> [d \in Devices |-> 0], order |-> << >>,
                  syncs |-> 0]

\* Device::sync(t) on device d: lastSyncTimeMillis = t, then the device's
\* onSync
DeviceSync(d, t, en, ub) ==
    LET due == t > lastTimeMillis[d] + updatePeriodMillis
    IN  /\ lastSyncTimeMillis' = [lastSyncTimeMillis EXCEPT ![d] = t]
        /\ value' = IF d \in Actuators
                     THEN [value EXCEPT ![d] = AnimatableOnSync(d, t, ub)]
                     ELSE value
        /\ error' = IF d \in Motors
                     THEN [error EXCEPT ![d] = MotorError(d, error[d], en)]
                     ELSE error
        /\ pins' = IF d \in Motors
                    THEN [pins EXCEPT ![d] = MotorPins(value'[d], ub)]
                    ELSE pins
        /\ rpm' = IF d \in HallSensors /\ due
                   THEN [rpm EXCEPT ![d] = HallRpm(halfRevolutions[hallId(d)],
                                                   t - lastTimeMillis[d], ub)]
                   ELSE rpm
        /\ lastTimeMillis' = IF d \in HallSensors /\ due
                              THEN [lastTimeMillis EXCEPT ![d] = t]
                              ELSE lastTimeMillis
        /\ halfRevolutions' = IF d \in HallSensors /\ due
                               THEN [halfRevolutions EXCEPT ![hallId(d)] = 0]
                               ELSE halfRevolutions

\* an init() loop that stops one device early
TicksInit_stopsEarly ==
    /\ pc = "setup"
    /\ harness.i <= Len(devices)
    /\ harness' = [harness EXCEPT
                      !.i = harness.i + 1,
                      !.inits[devices[harness.i]] =
                          IF harness.i < Len(devices) THEN @ + 1 ELSE @,
                      !.order = Append(harness.order, devices[harness.i])]
    /\ UNCHANGED tankVars

\* setup(), state.init(): one pass of the loop over devices
TicksInit ==
    /\ pc = "setup"
    /\ harness.i <= Len(devices)
    /\ harness' = [harness EXCEPT
                      !.i = harness.i + 1,
                      !.inits[devices[harness.i]] = @ + 1,
                      !.order = Append(harness.order, devices[harness.i])]
    /\ UNCHANGED tankVars

\* setup(), after state.init(): io.init() and the two log lines
TicksSetupDone ==
    /\ pc = "setup"
    /\ harness.i > Len(devices)
    /\ pc' = "loop"
    /\ harness' = [harness EXCEPT !.i = 1, !.order = << >>]
    /\ UNCHANGED << clock, now, commandCode, pAnimation, value, error,
                    pins, lastSyncTimeMillis, showStatus, rpm, lastTimeMillis,
                    halfRevolutions, faultShown, snapshot >>

\* loop() up to the call of state.sync
TicksLoop(code) ==
    /\ pc = "loop"
    /\ now' = clock
    /\ commandCode' = code
    /\ pAnimation' = applyAnimations(code, pAnimation, clock)
    /\ error' = applyError(code, error)
    /\ showStatus' = applyStatus(code, showStatus)
    /\ pc' = "sync"
    /\ harness' = [harness EXCEPT !.i = 1, !.order = << >>, !.syncs = 0]
    /\ UNCHANGED << clock, value, pins, lastSyncTimeMillis, rpm, lastTimeMillis,
                    halfRevolutions, faultShown, snapshot >>

\* state.sync(now): one pass of the loop over devices
TicksDevice(en, ub) ==
    /\ pc = "sync"
    /\ harness.i <= Len(devices)
    /\ DeviceSync(devices[harness.i], now, en, ub)
    /\ harness' = [harness EXCEPT
                      !.i = harness.i + 1,
                      !.order = Append(harness.order, devices[harness.i])]
    /\ UNCHANGED << clock, pc, now, commandCode, pAnimation, showStatus,
                    faultShown, snapshot >>

\* state.sync(now) after the loop: the fault check and the status
\* snapshot; loop() then returns. (faultShown, the history kept for the
\* fault blink in Spec, is not kept here.)
TicksSyncDone ==
    /\ pc = "sync"
    /\ harness.i > Len(devices)
    /\ pAnimation' = IF error["motorLeft"] \/ error["motorRight"]
                      THEN faultBranch(pAnimation, clock) ELSE pAnimation
    /\ snapshot' = statusSnapshot(showStatus, value)
    /\ showStatus' = FALSE
    /\ pc' = "idle"
    /\ harness' = [harness EXCEPT !.syncs = harness.syncs + 1]
    /\ UNCHANGED << clock, now, commandCode, value, error, pins,
                    lastSyncTimeMillis, rpm, lastTimeMillis, halfRevolutions,
                    faultShown >>

\* loop() is called again d milliseconds later
TicksIdle(d) ==
    /\ pc = "idle"
    /\ now + d <= MaxTicksTime
    /\ clock' = now + d
    /\ commandCode' = ""
    /\ snapshot' = << >>
    /\ pc' = "loop"
    /\ UNCHANGED << now, pAnimation, value, error, pins,
                    lastSyncTimeMillis, showStatus, rpm, lastTimeMillis,
                    halfRevolutions, faultShown, harness >>

NextTicks ==
    \/ TicksInit
    \/ TicksSetupDone
    \/ \E code \in TicksCodes : TicksLoop(code)
    \/ \E en \in Levels, ub \in SyncOverflows : TicksDevice(en, ub)
    \/ TicksSyncDone
    \/ \E d \in TicksSteps : TicksIdle(d)

SpecTicks == InitTicks /\ [][NextTicks]_vars

---------------------------------------------------------------------------
(* SpecMotor: one motor commanded to a speed and ticked, again and again,  *)
(* for every speed. The pins are outputs the driver chip sees at all       *)
(* times, so Motor::onSync is taken in two steps here: up to the write of  *)
(* pin A, and the writes of pin B and of the PWM output. harness holds the *)
(* speed commanded and the stage: "new", "commanded", "pinA" (between the  *)
(* two steps of the tick), "ticked".                                       *)

\* the speeds of the first command: the motor's range and one beyond at
\* each end
MotorSpeeds == -100 .. 100

\* the speeds of the later commands
MotorNextSpeeds == {-99, -1, 0, 1, 99}

InitMotor ==
    /\ InitTank
    /\ harness = [speed |-> 0, stage |-> "new"]

\* TankState::leftMotor(v)
MotorCommand(v) ==
    /\ \/ harness.stage = "new"
       \/ harness.stage = "ticked" /\ v \in MotorNextSpeeds
    /\ pAnimation' = leftMotor(pAnimation, clock, v)
    /\ harness' = [speed |-> v, stage |-> "commanded"]
    /\ UNCHANGED << clock, pc, now, commandCode, value, error, pins,
                    lastSyncTimeMillis, showStatus, rpm, lastTimeMillis,
                    halfRevolutions, faultShown, snapshot >>

\* Device::sync(now) on the motor, Motor::onSync up to
\* digitalWrite(pinInA, ..)
MotorTickA(en) ==
    /\ harness.stage = "commanded"
    /\ lastSyncTimeMillis' = [lastSyncTimeMillis EXCEPT !["motorLeft"] = now]
    /\ value' = [value EXCEPT
                   !["motorLeft"] = AnimatableOnSync("motorLeft", now, "exact")]
    /\ error' = [error EXCEPT
                   !["motorLeft"] = MotorError("motorLeft", error["motorLeft"], en)]
    /\ pins' = [pins EXCEPT
                  !["motorLeft"].inA =
                      MotorPins(value'["motorLeft"], "exact").inA]
    /\ harness' = [harness EXCEPT !.stage = "pinA"]
    /\ UNCHANGED << clock, pc, now, commandCode, pAnimation, showStatus, rpm,
                    lastTimeMillis, halfRevolutions, faultShown, snapshot >>

\* Motor::onSync, digitalWrite(pinInB, ..) and analogWrite(pinPwm, pwm)
MotorTickB ==
    /\ harness.stage = "pinA"
    /\ pins' = [pins EXCEPT
                  !["motorLeft"] = MotorPins(value["motorLeft"], "exact")]
    /\ harness' = [harness EXCEPT !.stage = "ticked"]
    /\ UNCHANGED << clock, pc, now, commandCode, pAnimation, value, error,
                    lastSyncTimeMillis, showStatus, rpm, lastTimeMillis,
                    halfRevolutions, faultShown, snapshot >>

NextMotor ==
    \/ \E v \in MotorSpeeds : MotorCommand(v)
    \/ \E en \in Levels : MotorTickA(en)
    \/ MotorTickB

SpecMotor == InitMotor /\ [][NextMotor]_vars

---------------------------------------------------------------------------
(* SpecApi: one actuator driven through the public operations of           *)
(* Animatable and ticked through Device::sync, with any arguments.         *)
(* harness records the calls: the actuator, whether it was ticked since    *)
(* the last mutator (ticked), whether that mutator was stopAnimation       *)
(* (frozen), the value and the kind of animation at that call (pinned,     *)
(* stopped), the target of the last ramp (target) and whether a tick at or *)
(* after that ramp's end came before the stop (ended).                     *)

InitApi ==
    /\ InitTank
    /\ harness \in { [actuator |-> d, ticked |-> FALSE, frozen |-> FALSE,
                       pinned |-> 0, stopped |-> "", target |-> 0,
                       ended |-> FALSE] : d \in ApiActuators }

ApiFrame ==
    UNCHANGED << clock, pc, now, commandCode, value, error, pins,
                 lastSyncTimeMillis, showStatus, rpm, lastTimeMillis,
                 halfRevolutions, faultShown, snapshot >>

ApiSetValueNow(v) ==
    /\ pAnimation' = setValueNow(pAnimation, harness.actuator, clock, v)
    /\ harness' = [harness EXCEPT
                      !.ticked = FALSE, !.frozen = FALSE, !.pinned = 0,
                      !.stopped = "", !.target = 0, !.ended = FALSE]
    /\ ApiFrame

ApiAnimateLinearly(v, durationMillis) ==
    /\ pAnimation' = animateLinearly(pAnimation, harness.actuator, clock, v,
                                      durationMillis)
    /\ harness' = [harness EXCEPT
                      !.ticked = FALSE, !.frozen = FALSE, !.pinned = 0,
                      !.stopped = "", !.target = v, !.ended = FALSE]
    /\ ApiFrame

ApiAnimateMeander(periodMillis, dutyCycle) ==
    /\ pAnimation' = animateMeander(pAnimation, harness.actuator, clock,
                                     periodMillis, dutyCycle)
    /\ harness' = [harness EXCEPT
                      !.ticked = FALSE, !.frozen = FALSE, !.pinned = 0,
                      !.stopped = "", !.target = 0, !.ended = FALSE]
    /\ ApiFrame

ApiStopAnimation ==
    /\ pAnimation' = stopAnimation(pAnimation, harness.actuator, clock)
    /\ harness' = [harness EXCEPT
                      !.ticked = FALSE, !.frozen = TRUE,
                      !.pinned = value[harness.actuator],
                      !.stopped = pAnimation[harness.actuator].kind,
                      !.target =
                          IF pAnimation[harness.actuator].kind = "LinearAnimation"
                          THEN harness.target ELSE 0,
                      !.ended =
                          /\ pAnimation[harness.actuator].kind = "LinearAnimation"
                          /\ harness.ended]
    /\ ApiFrame

\* Device::sync(now) on the actuator, dt milliseconds later: LED::onSync or
\* Motor::onSync
ApiSync(dt, en, ub) ==
    LET d == harness.actuator
    IN  /\ clock + dt <= MaxApiTime
        /\ clock' = clock + dt
        /\ now' = clock'
        /\ lastSyncTimeMillis' = [lastSyncTimeMillis EXCEPT ![d] = now']
        /\ value' = [value EXCEPT ![d] = AnimatableOnSync(d, now', ub)]
        /\ error' = IF d \in Motors
                     THEN [error EXCEPT ![d] = MotorError(d, error[d], en)]
                     ELSE error
        /\ pins' = IF d \in Motors
                    THEN [pins EXCEPT ![d] = MotorPins(value'[d], ub)]
                    ELSE pins
        /\ harness' = [harness EXCEPT
                          !.ticked = TRUE,
                          !.ended = \/ harness.ended
                                    \/ /\ ~harness.frozen
                                       /\ pAnimation[d].kind = "LinearAnimation"
                                       /\ now' >= pAnimation[d].startTimeMillis
                                                    + pAnimation[d].durationMillis]
        /\ UNCHANGED << pc, commandCode, pAnimation, showStatus, rpm,
                        lastTimeMillis, halfRevolutions, faultShown,
                        snapshot >>

NextApi ==
    \/ \E v \in ApiValues : ApiSetValueNow(v)
    \/ \E v \in ApiValues, durationMillis \in ApiDurations :
          ApiAnimateLinearly(v, durationMillis)
    \/ \E periodMillis \in ApiPeriods, dutyCycle \in ApiDuties :
          ApiAnimateMeander(periodMillis, dutyCycle)
    \/ ApiStopAnimation
    \/ \E dt \in ApiSteps, en \in Levels, ub \in Overflows : ApiSync(dt, en, ub)

SpecApi == InitApi /\ [][NextApi]_vars

---------------------------------------------------------------------------
(* SpecLinear: LinearAnimation::calcValue on drawn inputs *)

LinearStarts == {0, 7}

LinearStartValues == {-99, 0, 42, 99}

LinearEndValues == {-32768, -99, 0, 50, 99, 32767}

\* any int: positive, zero and negative
LinearDurations == {-3, 0, 1, 2, 3, 7, 1000}

\* t - startTimeMillis
LinearOffsets == {-5, -1, 0, 1, 2, 3, 6, 7, 333, 500, 999, 1000}

InitLinear ==
    /\ InitTank
    /\ harness \in
         { [a |-> LinearAnimation(s, sv, ev, dur), t |-> s + e,
            done |-> FALSE, result |-> 0, next |-> 0] :
           s \in LinearStarts, sv \in LinearStartValues,
           ev \in LinearEndValues, dur \in LinearDurations,
           e \in LinearOffsets }
    /\ harness.t >= 0
    /\ \/ harness.t <= harness.a.startTimeMillis + harness.a.durationMillis
       \/ harness.a.durationMillis <= 0 /\ harness.t <= harness.a.startTimeMillis + 7

\* calcValue at t and one millisecond later
LinearEval(ub) ==
    /\ ~harness.done
    /\ harness' = [harness EXCEPT
                      !.done = TRUE,
                      !.result = calcValue(harness.a, harness.t, ub),
                      !.next = calcValue(harness.a, harness.t + 1, ub)]
    /\ UNCHANGED tankVars

NextLinear == \E ub \in Overflows : LinearEval(ub)

SpecLinear == InitLinear /\ [][NextLinear]_vars

---------------------------------------------------------------------------
(* SpecBlink: BlinkingAnimation and its calcValue on drawn inputs *)

BlinkStarts == {0, 3}

BlinkRanges == { [minValue |-> 0, maxValue |-> 99],
                 [minValue |-> -99, maxValue |-> 99] }

\* up to the longest period animateMeander(int, int) can pass
BlinkPeriods == {1, 3, 7, 500, 1000, 32767}

BlinkDuties == {-32768, -5, 0, 1, 33, 50, 99, 100, 250, 32767}

BlinkOffsets == {0, 1, 2, 3, 249, 250, 499, 500, 999, 1000}

InitBlink ==
    /\ InitTank
    /\ harness \in
         { [a |-> BlinkingAnimation(s, r, p, duty), duty |-> duty, t |-> s + e,
            done |-> FALSE, result |-> 0, high |-> 0] :
           s \in BlinkStarts, r \in BlinkRanges, p \in BlinkPeriods,
           duty \in BlinkDuties, e \in BlinkOffsets }

\* calcValue at t, and the number of milliseconds of the window
\* t .. t + period - 1 at which calcValue is the range's maximum
BlinkEval ==
    /\ ~harness.done
    /\ harness' = [harness EXCEPT
                      !.done = TRUE,
                      !.result = calcValue(harness.a, harness.t, "exact"),
                      !.high = Cardinality(
                          { k \in 0 .. harness.a.periodMillis - 1 :
                              calcValue(harness.a, harness.t + k, "exact")
                                = harness.a.range.maxValue })]
    /\ UNCHANGED tankVars

NextBlink == BlinkEval

SpecBlink == InitBlink /\ [][NextBlink]_vars

---------------------------------------------------------------------------
(* SpecDegenerate: one actuator given ramps of zero duration and blinks of *)
(* zero period, and ticked through Device::sync. harness records the       *)
(* actuator, the last mutator called (call) and its target, whether a tick *)
(* came after it (ticked) and the divisors that tick's calcValue divided   *)
(* or took a remainder by (divisors).                                      *)

\* what a remainder by zero may leave in phase (undefined behaviour): some
\* unsigned long
ZeroRemainders == {0, 1, 2147483647}

\* the right operands of the / and % that calcValue(timeMillis) evaluates
Divisors(a, timeMillis) ==
    CASE a.kind = "ConstValue"        -> {}
      [] a.kind = "LinearAnimation"   ->
            IF timeMillis >= a.startTimeMillis
               /\ timeMillis < a.startTimeMillis + a.durationMillis
            THEN {a.durationMillis} ELSE {}
      [] a.kind = "BlinkingAnimation" -> {a.periodMillis, 100}

\* BlinkingAnimation::calcValue when periodMillis is 0: phase is whatever the
\* remainder by zero left there
BlinkCalcValueZero(a, rem) ==
    LET phase == rem
    IN  IF phase < (a.periodMillis * a.dutyCycle) \div 100
        THEN a.range.maxValue
        ELSE a.range.minValue

\* Animatable::onSync on an actuator that may hold a blink of period 0
DegenerateOnSync(d, t, ub, rem) ==
    IF pAnimation[d].kind = "BlinkingAnimation" /\ pAnimation[d].periodMillis = 0
    THEN setValue(d, BlinkCalcValueZero(pAnimation[d], rem))
    ELSE AnimatableOnSync(d, t, ub)

InitDegenerate ==
    /\ InitTank
    /\ harness \in { [actuator |-> d, call |-> "", target |-> 0,
                       ticked |-> FALSE, divisors |-> {}] : d \in ApiActuators }

DegenerateSetValueNow(v) ==
    /\ pAnimation' = setValueNow(pAnimation, harness.actuator, clock, v)
    /\ harness' = [harness EXCEPT !.call = "setValueNow", !.target = v,
                                  !.ticked = FALSE, !.divisors = {}]
    /\ ApiFrame

\* animateLinearly(v, 0)
DegenerateAnimateLinearly(v) ==
    /\ pAnimation' = animateLinearly(pAnimation, harness.actuator, clock, v, 0)
    /\ harness' = [harness EXCEPT !.call = "animateLinearly", !.target = v,
                                  !.ticked = FALSE, !.divisors = {}]
    /\ ApiFrame

\* animateMeander(0, dutyCycle)
DegenerateAnimateMeander(dutyCycle) ==
    /\ pAnimation' = animateMeander(pAnimation, harness.actuator, clock, 0,
                                     dutyCycle)
    /\ harness' = [harness EXCEPT !.call = "animateMeander", !.target = 0,
                                  !.ticked = FALSE, !.divisors = {}]
    /\ ApiFrame

\* Device::sync(now) on the actuator, dt milliseconds later
DegenerateSync(dt, en, ub, rem) ==
    LET d == harness.actuator
    IN  /\ clock + dt <= MaxApiTime
        /\ clock' = clock + dt
        /\ now' = clock'
        /\ lastSyncTimeMillis' = [lastSyncTimeMillis EXCEPT ![d] = now']
        /\ value' = [value EXCEPT ![d] = DegenerateOnSync(d, now', ub, rem)]
        /\ error' = IF d \in Motors
                     THEN [error EXCEPT ![d] = MotorError(d, error[d], en)]
                     ELSE error
        /\ pins' = IF d \in Motors
                    THEN [pins EXCEPT ![d] = MotorPins(value'[d], ub)]
                    ELSE pins
        /\ harness' = [harness EXCEPT
                          !.ticked = TRUE,
                          !.divisors = Divisors(pAnimation[d], now')]
        /\ UNCHANGED << pc, commandCode, pAnimation, showStatus, rpm,
                        lastTimeMillis, halfRevolutions, faultShown,
                        snapshot >>

NextDegenerate ==
    \/ \E v \in ApiValues : DegenerateSetValueNow(v)
    \/ \E v \in ApiValues : DegenerateAnimateLinearly(v)
    \/ \E dutyCycle \in ApiDuties : DegenerateAnimateMeander(dutyCycle)
    \/ \E dt \in ApiSteps, en \in Levels, ub \in Overflows,
          rem \in ZeroRemainders : DegenerateSync(dt, en, ub, rem)

SpecDegenerate == InitDegenerate /\ [][NextDegenerate]_vars

---------------------------------------------------------------------------
(* SpecHall: the four hall sensors through setup() and loop(), with the    *)
(* statements of HallSensor::onSync taken one at a time and the edges of   *)
(* the sensors' interrupt arriving between any two of them. All four       *)
(* sensors are constructed with pin 0, so all four attach to interrupt 0   *)
(* and each attachInterrupt replaces the handler bound there. harness      *)
(* holds the id of the sensor the loop over devices is at (k, 4 past the   *)
(* last), the position in its init or onSync (stage: "setup", "idle",      *)
(* "check", "detached", "read", "stamped", "reset"), the id whose handler  *)
(* is attached to interrupt 0 (handler, -1 when detached), and history:    *)
(* the increments each handler has made (made), the counts the rpm         *)
(* computations have read (used) and the edges so far (edges).             *)

\* the clock stops here, and the edges of a run
MaxHallTime == 2002

MaxEdges == 3

\* milliseconds between two iterations of loop()
HallSteps == {500, 1001}

\* attachInterrupt(pin, interruptHandlers[id], RISING), pin 0: the handler
\* bound to interrupt 0 afterwards
attachInterrupt(handler, id) == id

\* a detachInterrupt that leaves the handler attached
detachInterrupt_ignored(handler) == handler

\* detachInterrupt(pin), pin 0
detachInterrupt(handler) == -1

HallFrame ==
    UNCHANGED << pc, commandCode, pAnimation, value, error, pins, showStatus,
                 faultShown, snapshot >>

InitHall ==
    /\ InitTank
    /\ harness = [k |-> 0, stage |-> "setup", handler |-> -1,
                  made |-> [i \in 0..3 |-> 0], used |-> [i \in 0..3 |-> 0],
                  edges |-> 0]

\* setup(), state.init(): HallSensor::init of the sensor with id k
HallInit ==
    /\ harness.stage = "setup"
    /\ harness.k <= 3
    /\ harness' = [harness EXCEPT
                      !.handler = attachInterrupt(harness.handler, harness.k),
                      !.k = harness.k + 1]
    /\ UNCHANGED << clock, now, lastSyncTimeMillis, rpm, lastTimeMillis,
                    halfRevolutions >>
    /\ HallFrame

\* setup() returns
HallSetupDone ==
    /\ harness.stage = "setup"
    /\ harness.k = 4
    /\ harness' = [harness EXCEPT !.stage = "idle"]
    /\ UNCHANGED << clock, now, lastSyncTimeMillis, rpm, lastTimeMillis,
                    halfRevolutions >>
    /\ HallFrame

\* loop() is called d milliseconds later and reads the clock; state.sync
\* starts on the first sensor
HallLoop(d) ==
    /\ harness.stage = "idle"
    /\ clock + d <= MaxHallTime
    /\ clock' = clock + d
    /\ now' = clock'
    /\ harness' = [harness EXCEPT !.stage = "check", !.k = 0]
    /\ UNCHANGED << lastSyncTimeMillis, rpm, lastTimeMillis, halfRevolutions >>
    /\ HallFrame

\* Device::sync and the test of HallSensor::onSync on sensor k; when the
\* update is due, detachInterrupt(pin)
HallCheck ==
    LET h == hallOfId(harness.k)
    IN  /\ harness.stage = "check"
        /\ harness.k <= 3
        /\ lastSyncTimeMillis' = [lastSyncTimeMillis EXCEPT ![h] = now]
        /\ harness' = IF now > lastTimeMillis[h] + updatePeriodMillis
                       THEN [harness EXCEPT
                                !.stage = "detached",
                                !.handler = detachInterrupt(harness.handler)]
                       ELSE [harness EXCEPT !.k = harness.k + 1]
        /\ UNCHANGED << clock, now, rpm, lastTimeMillis, halfRevolutions >>
        /\ HallFrame

\* rpm = (halfRevolutions[id] * 1000 * 60 / 2) / (now - lastTimeMillis)
HallCompute(ub) ==
    LET h == hallOfId(harness.k)
    IN  /\ harness.stage = "detached"
        /\ rpm' = [rpm EXCEPT ![h] = HallRpm(halfRevolutions[harness.k],
                                             now - lastTimeMillis[h], ub)]
        /\ harness' = [harness EXCEPT
                          !.stage = "read",
                          !.used[harness.k] = @ + halfRevolutions[harness.k]]
        /\ UNCHANGED << clock, now, lastSyncTimeMillis, lastTimeMillis,
                        halfRevolutions >>
        /\ HallFrame

\* lastTimeMillis = now
HallStamp ==
    /\ harness.stage = "read"
    /\ lastTimeMillis' = [lastTimeMillis EXCEPT ![hallOfId(harness.k)] = now]
    /\ harness' = [harness EXCEPT !.stage = "stamped"]
    /\ UNCHANGED << clock, now, lastSyncTimeMillis, rpm, halfRevolutions >>
    /\ HallFrame

\* halfRevolutions[id] = 0
HallReset ==
    /\ harness.stage = "stamped"
    /\ halfRevolutions' = [halfRevolutions EXCEPT ![harness.k] = 0]
    /\ harness' = [harness EXCEPT !.stage = "reset"]
    /\ UNCHANGED << clock, now, lastSyncTimeMillis, rpm, lastTimeMillis >>
    /\ HallFrame

\* attachInterrupt(pin, interruptHandlers[id], RISING); the loop over
\* devices moves on
HallAttach ==
    /\ harness.stage = "reset"
    /\ harness' = [harness EXCEPT
                      !.stage = "check",
                      !.handler = attachInterrupt(harness.handler, harness.k),
                      !.k = harness.k + 1]
    /\ UNCHANGED << clock, now, lastSyncTimeMillis, rpm, lastTimeMillis,
                    halfRevolutions >>
    /\ HallFrame

\* state.sync and loop() return
HallSyncDone ==
    /\ harness.stage = "check"
    /\ harness.k = 4
    /\ harness' = [harness EXCEPT !.stage = "idle"]
    /\ UNCHANGED << clock, now, lastSyncTimeMillis, rpm, lastTimeMillis,
                    halfRevolutions >>
    /\ HallFrame

\* a rising edge on interrupt 0 while a handler is attached:
\* interruptHandler0..3, ++halfRevolutions[id] on a byte
HallEdge ==
    /\ harness.handler # -1
    /\ harness.edges < MaxEdges
    /\ halfRevolutions' = [halfRevolutions EXCEPT
                              ![harness.handler] = (@ + 1) % 256]
    /\ harness' = [harness EXCEPT
                      !.made[harness.handler] = @ + 1,
                      !.edges = harness.edges + 1]
    /\ UNCHANGED << clock, now, lastSyncTimeMillis, rpm, lastTimeMillis >>
    /\ HallFrame

NextHall ==
    \/ HallInit
    \/ HallSetupDone
    \/ \E d \in HallSteps : HallLoop(d)
    \/ HallCheck
    \/ \E ub \in Overflows : HallCompute(ub)
    \/ HallStamp
    \/ HallReset
    \/ HallAttach
    \/ HallSyncDone
    \/ HallEdge

SpecHall == InitHall /\ [][NextHall]_vars

---------------------------------------------------------------------------
(* SpecSlot: one actuator given runs of mutator calls and ticked. harness  *)
(* records the actuator, the value the last tick left (base), the calls    *)
(* since that tick (calls, counted up to 2), the mutator called before the *)
(* last one in that run (earlier), the last call with its arguments, its   *)
(* clock read and the base it saw (last), whether a tick followed (ticked) *)
(* and what that tick's int arithmetic did on overflow (ub).               *)

\* arguments of the calls: targets in and out of the ranges, one duration,
\* one period and one duty cycle
SlotValues == {-100, 50, 99}

SlotDurations == {3}

SlotPeriods == {2}

SlotDuties == {50}

NoCall ==
    [call |-> "", t |-> 0, v |-> 0, durationMillis |-> 0, periodMillis |-> 0,
     dutyCycle |-> 0, from |-> 0]

InitSlot ==
    /\ InitTank
    /\ harness \in { [actuator |-> d, base |-> 0, calls |-> 0, earlier |-> "",
                       last |-> NoCall, ticked |-> FALSE, ub |-> "exact"] :
                     d \in ApiActuators }

\* the record of a call that follows the calls so far
SlotCalled(call) ==
    [harness EXCEPT
        !.calls = IF harness.ticked \/ harness.calls = 0 THEN 1 ELSE 2,
        !.earlier = IF harness.ticked \/ harness.calls = 0 THEN ""
                    ELSE harness.last.call,
        !.last = call,
        !.ticked = FALSE,
        !.ub = "exact"]

SlotSetValueNow(v) ==
    /\ pAnimation' = setValueNow(pAnimation, harness.actuator, clock, v)
    /\ harness' = SlotCalled([NoCall EXCEPT !.call = "setValueNow",
                                            !.t = clock, !.v = v])
    /\ ApiFrame

SlotAnimateLinearly(v, durationMillis) ==
    /\ pAnimation' = animateLinearly(pAnimation, harness.actuator, clock, v,
                                      durationMillis)
    /\ harness' = SlotCalled([NoCall EXCEPT !.call = "animateLinearly",
                                            !.t = clock, !.v = v,
                                            !.durationMillis = durationMillis,
                                            !.from = harness.base])
    /\ ApiFrame

SlotAnimateMeander(periodMillis, dutyCycle) ==
    /\ pAnimation' = animateMeander(pAnimation, harness.actuator, clock,
                                     periodMillis, dutyCycle)
    /\ harness' = SlotCalled([NoCall EXCEPT !.call = "animateMeander",
                                            !.t = clock,
                                            !.periodMillis = periodMillis,
                                            !.dutyCycle = dutyCycle])
    /\ ApiFrame

SlotStopAnimation ==
    /\ pAnimation' = stopAnimation(pAnimation, harness.actuator, clock)
    /\ harness' = SlotCalled([NoCall EXCEPT !.call = "stopAnimation",
                                            !.t = clock,
                                            !.from = harness.base])
    /\ ApiFrame

\* the clock advances between two calls
SlotWait(dt) ==
    /\ dt > 0
    /\ clock + dt <= MaxApiTime
    /\ clock' = clock + dt
    /\ UNCHANGED << pc, now, commandCode, pAnimation, value, error, pins,
                    lastSyncTimeMillis, showStatus, rpm, lastTimeMillis,
                    halfRevolutions, faultShown, snapshot, harness >>

\* Device::sync(now) on the actuator, dt milliseconds later; the motor's
\* enable line reads en
SlotSync(dt, en, ub) ==
    LET d == harness.actuator
    IN  /\ clock + dt <= MaxApiTime
        /\ clock' = clock + dt
        /\ now' = clock'
        /\ lastSyncTimeMillis' = [lastSyncTimeMillis EXCEPT ![d] = now']
        /\ value' = [value EXCEPT ![d] = AnimatableOnSync(d, now', ub)]
        /\ error' = IF d \in Motors
                     THEN [error EXCEPT ![d] = MotorError(d, error[d], en)]
                     ELSE error
        /\ pins' = IF d \in Motors
                    THEN [pins EXCEPT ![d] = MotorPins(value'[d], ub)]
                    ELSE pins
        /\ harness' = [harness EXCEPT !.ticked = TRUE, !.base = value'[d],
                                      !.ub = ub]
        /\ UNCHANGED << pc, commandCode, pAnimation, showStatus, rpm,
                        lastTimeMillis, halfRevolutions, faultShown,
                        snapshot >>

NextSlot ==
    \/ \E v \in SlotValues : SlotSetValueNow(v)
    \/ \E v \in SlotValues, durationMillis \in SlotDurations :
          SlotAnimateLinearly(v, durationMillis)
    \/ \E periodMillis \in SlotPeriods, dutyCycle \in SlotDuties :
          SlotAnimateMeander(periodMillis, dutyCycle)
    \/ SlotStopAnimation
    \/ \E dt \in ApiSteps : SlotWait(dt)
    \/ \E dt \in ApiSteps, ub \in Overflows : SlotSync(dt, "HIGH", ub)

SpecSlot == InitSlot /\ [][NextSlot]_vars

---------------------------------------------------------------------------
(* SpecReader: setup() and loop() with the command reader IO::getData and  *)
(* the bytes of the serial line. The clock stands still and no motor       *)
(* faults. harness holds IO::data (data) and the bytes received and not    *)
(* yet read (serial), both as sequences of characters, and history: the    *)
(* bytes received so far (sent), the last of them (lastSent), whether a    *)
(* known command, "L;", was received right after a separator or first on   *)
(* the line and is not dispatched yet (known), and the code of the command *)
(* the latest loop() dispatched ("" when none or the NOP) (dispatched).    *)

MAX_COMMAND_LENGTH == 16

\* the receive buffer holds this many bytes, and a run receives this many
MaxSerial == 3

MaxBytes == 20

\* the bytes received one at a time: a byte of no command, the separator
ReaderBytes == {"x", ";"}

\* the characters of a command code
AsChars(code) ==
    CASE code = "BR" -> << "B", "R" >>
      [] code = "BL" -> << "B", "L" >>
      [] code = ""   -> << >>
      [] OTHER       -> << code >>

\* IO::getData(maxLength, stopChar) on IO::data = data with the bytes serial
\* waiting: the code returned, and what is left of both
RECURSIVE getData(_, _, _, _)
getData(data, serial, maxLength, stopChar) ==
    IF Len(data) < maxLength /\ serial # << >>
    THEN IF Head(serial) = stopChar
         THEN [commandCode |-> data, data |-> << >>, serial |-> Tail(serial)]
         ELSE getData(Append(data, Head(serial)), Tail(serial), maxLength,
                      stopChar)
    ELSE [commandCode |-> << >>, data |-> data, serial |-> serial]

\* Commands::findByCode: the code of the command found, "" for the NOP
findByCode(chars) ==
    IF \E c \in CommandCodes : AsChars(c) = chars
    THEN CHOOSE c \in CommandCodes : AsChars(c) = chars
    ELSE ""

InitReader ==
    /\ InitTank
    /\ harness = [data |-> << >>, serial |-> << >>, sent |-> 0,
                  lastSent |-> ";", known |-> FALSE, dispatched |-> ""]

\* a byte arrives on the serial line
ReaderReceive(ch) ==
    /\ harness.sent < MaxBytes
    /\ Len(harness.serial) < MaxSerial
    /\ harness' = [harness EXCEPT !.serial = Append(harness.serial, ch),
                                  !.sent = harness.sent + 1,
                                  !.lastSent = ch]
    /\ UNCHANGED tankVars

\* the two bytes of "L;" arrive, after a separator or first on the line
ReaderReceiveCommand ==
    /\ ~harness.known
    /\ harness.lastSent = ";"
    /\ harness.sent + 2 <= MaxBytes
    /\ Len(harness.serial) + 2 <= MaxSerial
    /\ harness' = [harness EXCEPT
                      !.serial = harness.serial \o << "L", ";" >>,
                      !.sent = harness.sent + 2,
                      !.lastSent = ";",
                      !.known = TRUE]
    /\ UNCHANGED tankVars

\* loop() up to the call of state.sync: io.getData, Utils::now(), and for a
\* code that is not empty findByCode and apply
ReaderLoop ==
    LET got  == getData(harness.data, harness.serial, MAX_COMMAND_LENGTH, ";")
        code == IF Len(got.commandCode) > 0 THEN findByCode(got.commandCode)
                ELSE ""
    IN  /\ pc = "loop"
        /\ now' = clock
        /\ commandCode' = IF got.commandCode = << >> \/ code # ""
                           THEN code ELSE "X"
        /\ pAnimation' = applyAnimations(code, pAnimation, clock)
        /\ error' = applyError(code, error)
        /\ showStatus' = applyStatus(code, showStatus)
        /\ pc' = "sync"
        /\ harness' = [harness EXCEPT
                          !.data = got.data,
                          !.serial = got.serial,
                          !.dispatched = code,
                          !.known = harness.known /\ code # "L"]
        /\ UNCHANGED << clock, value, pins, lastSyncTimeMillis, rpm,
                        lastTimeMillis, halfRevolutions, faultShown, snapshot >>

\* loop() returns and is called again
ReaderIdle ==
    /\ pc = "idle"
    /\ commandCode' = ""
    /\ snapshot' = << >>
    /\ pc' = "loop"
    /\ UNCHANGED << clock, now, pAnimation, value, error, pins,
                    lastSyncTimeMillis, showStatus, rpm, lastTimeMillis,
                    halfRevolutions, faultShown, harness >>

NextReader ==
    \/ Setup
    \/ \E ch \in ReaderBytes : ReaderReceive(ch)
    \/ ReaderReceiveCommand
    \/ ReaderLoop
    \/ LightsSync
    \/ ReaderIdle

\* the Arduino core calls setup() once and loop() again and again
ReaderFairness ==
    /\ WF_vars(Setup)
    /\ WF_vars(ReaderLoop)
    /\ WF_vars(LightsSync)
    /\ WF_vars(ReaderIdle)

SpecReader == InitReader /\ [][NextReader]_vars /\ ReaderFairness

---------------------------------------------------------------------------
(* SpecMethods: the public operations of TankState called one at a time,   *)
(* in any order, between ticks. harness names the operation of the latest  *)
(* step (call) and counts the steps of the run (steps).                    *)

\* the clock stops here, and a run has this many steps
MaxMethodsTime == 250

MaxCalls == 5

\* milliseconds between two iterations of loop()
MethodsSteps == {250}

\* the speeds asked of a motor
MethodsSpeeds == {-25, 50}

InitMethods ==
    /\ InitTank
    /\ harness = [call |-> "", steps |-> 0]

MethodsCalled(call) == [call |-> call, steps |-> harness.steps + 1]

\* an operation that replaces animations only
MethodsFrame ==
    UNCHANGED << clock, pc, now, commandCode, value, error, pins,
                 lastSyncTimeMillis, showStatus, rpm, lastTimeMillis,
                 halfRevolutions, faultShown, snapshot >>

MethodsStop ==
    /\ pAnimation' = stop(pAnimation, clock)
    /\ harness' = MethodsCalled("stop")
    /\ MethodsFrame

MethodsLeftMotor(speed) ==
    /\ pAnimation' = leftMotor(pAnimation, clock, speed)
    /\ harness' = MethodsCalled("leftMotor")
    /\ MethodsFrame

MethodsRightMotor(speed) ==
    /\ pAnimation' = rightMotor(pAnimation, clock, speed)
    /\ harness' = MethodsCalled("rightMotor")
    /\ MethodsFrame

MethodsLights(on) ==
    /\ pAnimation' = lights(pAnimation, clock, on)
    /\ harness' = MethodsCalled("lights")
    /\ MethodsFrame

MethodsBlinkRight ==
    /\ pAnimation' = blinkRight(pAnimation, clock)
    /\ harness' = MethodsCalled("blinkRight")
    /\ MethodsFrame

MethodsBlinkLeft ==
    /\ pAnimation' = blinkLeft(pAnimation, clock)
    /\ harness' = MethodsCalled("blinkLeft")
    /\ MethodsFrame

MethodsRecover ==
    /\ error' = recover(error)
    /\ harness' = MethodsCalled("recover")
    /\ UNCHANGED << clock, pc, now, commandCode, pAnimation, value, pins,
                    lastSyncTimeMillis, showStatus, rpm, lastTimeMillis,
                    halfRevolutions, faultShown, snapshot >>

MethodsStatus ==
    /\ showStatus' = TRUE
    /\ harness' = MethodsCalled("status")
    /\ UNCHANGED << clock, pc, now, commandCode, pAnimation, value, error,
                    pins, lastSyncTimeMillis, rpm, lastTimeMillis,
                    halfRevolutions, faultShown, snapshot >>

\* loop() is called d milliseconds later and reads the clock
MethodsLoop(d) ==
    /\ harness.call # "loop"
    /\ clock + d <= MaxMethodsTime
    /\ clock' = clock + d
    /\ now' = clock'
    /\ harness' = MethodsCalled("loop")
    /\ UNCHANGED << pc, commandCode, pAnimation, value, error, pins,
                    lastSyncTimeMillis, showStatus, rpm, lastTimeMillis,
                    halfRevolutions, faultShown, snapshot >>

\* TankState::sync(now); en is what the motors' enable inputs read
MethodsSync(en) ==
    /\ harness.call # "sync"
    /\ TankSync(en, "exact")
    /\ harness' = MethodsCalled("sync")
    /\ UNCHANGED << clock, pc, now, commandCode >>

NextMethods ==
    /\ harness.steps < MaxCalls
    /\ \/ MethodsStop
       \/ \E speed \in MethodsSpeeds : MethodsLeftMotor(speed)
       \/ \E speed \in MethodsSpeeds : MethodsRightMotor(speed)
       \/ \E on \in BOOLEAN : MethodsLights(on)
       \/ MethodsBlinkRight
       \/ MethodsBlinkLeft
       \/ MethodsRecover
       \/ MethodsStatus
       \/ \E d \in MethodsSteps : MethodsLoop(d)
       \/ \E en \in [Motors -> Levels] : MethodsSync(en)

SpecMethods == InitMethods /\ [][NextMethods]_vars

---------------------------------------------------------------------------
(* Properties of the firmware (Spec) *)

AnyError == error["motorLeft"] \/ error["motorRight"]

\* state.sync has just returned
SyncEnded == pc = "idle"

IsConst(a, v) == a.kind = "ConstValue" /\ a.value = v

IsBlink(a, range, periodMillis, dutyCycle) ==
    /\ a.kind = "BlinkingAnimation"
    /\ a.range = range
    /\ a.periodMillis = periodMillis
    /\ a.dutyCycle = dutyCycle

LedRange == [minValue |-> 0, maxValue |-> 99]

\* the animations blinkLeft() installs are the current ones
BlinkLeftRunning ==
    /\ IsBlink(pAnimation["ledLeftFront"], LedRange, 1000, 50)
    /\ IsBlink(pAnimation["ledLeftRear"], LedRange, 1000, 50)
    /\ IsConst(pAnimation["ledRightFront"], 0)
    /\ IsConst(pAnimation["ledRightRear"], 0)

BlinkRightRunning ==
    /\ IsBlink(pAnimation["ledRightFront"], LedRange, 1000, 50)
    /\ IsBlink(pAnimation["ledRightRear"], LedRange, 1000, 50)
    /\ IsConst(pAnimation["ledLeftFront"], 0)
    /\ IsConst(pAnimation["ledLeftRear"], 0)

\* C1 (as claimed): once a motor's error flag is true it stays true over
\* every step except the one in which the recover command is applied.
C1_FaultSticky ==
    [][ \A m \in Motors :
          (error[m] /\ ~(pc = "loop" /\ commandCode' = "R")) => error'[m] ]_vars

\* C2 (as claimed): when state.sync returns with a motor error flag set,
\* both motors' speed is 0.
C2_FaultZeroesSpeed ==
    (SyncEnded /\ AnyError) =>
        (value["motorLeft"] = 0 /\ value["motorRight"] = 0)

\* C3: when state.sync returns with a motor error flag set, both motors hold
\* Const(0) and all four LEDs hold Blink(500 ms, 50%) over the LED range,
\* whatever command was applied before the sync.
C3_FaultOverride ==
    (SyncEnded /\ AnyError) =>
        /\ \A m \in Motors : IsConst(pAnimation[m], 0)
        /\ \A l \in Leds : IsBlink(pAnimation[l], LedRange, 500, 50)

\* the fault is read in the very iteration that applied "full forward":
\* the motors were ticked to 99 and their animation is overridden
C3_Witness ==
    /\ SyncEnded /\ AnyError
    /\ commandCode = "8"
    /\ value["motorLeft"] = 99
    /\ IsConst(pAnimation["motorLeft"], 0)
    /\ IsBlink(pAnimation["ledLeftFront"], LedRange, 500, 50)

\* C4 (as claimed): on every tick after the one that detected a fault, while
\* the fault persists, each LED shows the 500 ms / 50% blink that started
\* when the fault was detected: 99 in the first 250 ms of each 500 ms
\* window, 0 in the rest. (Stated for the iterations that apply no LED
\* command.)
C4_FaultBlinkShown ==
    (SyncEnded /\ AnyError /\ faultShown.persisted
       /\ commandCode \notin {"L", "O", "BL", "BR"}) =>
        \A l \in Leds :
            value[l] = IF (now - faultShown.start) % 500 < 250 THEN 99 ELSE 0

\* C9 (as claimed): with blinkLeft() issued at t0 still in force, the left
\* LEDs are at 99 on a tick at t0, at 0 on a tick at t0+500 and at 99 on a
\* tick at t0+999.
C9_BlinkLeftScenario ==
    (SyncEnded /\ BlinkLeftRunning) =>
        \A l \in {"ledLeftFront", "ledLeftRear"} :
            LET t0 == pAnimation[l].startTimeMillis
            IN  /\ now = t0 => value[l] = 99
                /\ now = t0 + 500 => value[l] = 0
                /\ now = t0 + 999 => value[l] = 99

\* C9 (amended): with blinkLeft() issued at t0 still in force, the left
\* LEDs are at 99 on a tick at t0, at 0 on a tick at t0+500, still at 0 on a
\* tick at t0+999, and at 99 again on a tick at t0+1000.
C9_BlinkLeftScenarioAmended ==
    (SyncEnded /\ BlinkLeftRunning) =>
        \A l \in {"ledLeftFront", "ledLeftRear"} :
            LET t0 == pAnimation[l].startTimeMillis
            IN  /\ now = t0 => value[l] = 99
                /\ now = t0 + 500 => value[l] = 0
                /\ now = t0 + 999 => value[l] = 0
                /\ now = t0 + 1000 => value[l] = 99

\* a tick 999 ms after blinkLeft(): the left LEDs are dark
C9_Witness ==
    /\ SyncEnded /\ BlinkLeftRunning
    /\ now = pAnimation["ledLeftFront"].startTimeMillis + 999
    /\ value["ledLeftFront"] = 0
    /\ value["ledLeftRear"] = 0

\* C10: right after blinkLeft() the left LEDs hold Blink(1000 ms, 50%) and
\* the right LEDs Const(0), right after blinkRight() the mirror image; and
\* whenever state.sync returns with these animations still the current ones,
\* the opposite side's brightness is 0.
C10_BlinkSides ==
    /\ (pc = "sync" /\ commandCode = "BL") => BlinkLeftRunning
    /\ (pc = "sync" /\ commandCode = "BR") => BlinkRightRunning
    /\ (SyncEnded /\ BlinkLeftRunning) =>
          (value["ledRightFront"] = 0 /\ value["ledRightRear"] = 0)
    /\ (SyncEnded /\ BlinkRightRunning) =>
          (value["ledLeftFront"] = 0 /\ value["ledLeftRear"] = 0)

\* blinkLeft() has just replaced the animation of a lit right side
C10_Witness ==
    /\ pc = "sync" /\ commandCode = "BL"
    /\ BlinkLeftRunning
    /\ value["ledRightFront"] > 0
    /\ value["ledRightRear"] > 0

\* C13: the recover command clears both motors' error flags and changes no
\* actuator's value or animation; and whenever state.sync returns without a
\* fault and a motor's animation is Const(0), as the fault branch left it,
\* that motor's speed is 0.
C13_RecoverFrame ==
    [][ /\ (pc = "loop" /\ commandCode' = "R") =>
              /\ \A m \in Motors : ~error'[m]
              /\ pAnimation' = pAnimation
              /\ value' = value
              /\ pins' = pins
        /\ (pc' = "idle" /\ ~(error'["motorLeft"] \/ error'["motorRight"])) =>
              \A m \in Motors :
                  IsConst(pAnimation'[m], 0) => value'[m] = 0 ]_vars

\* recover has just cleared a fault that stopped a motor running at 99: the
\* flags are down, the fault's animations and the speed are as they were
C13_Witness ==
    /\ pc = "sync" /\ commandCode = "R"
    /\ faultShown.start # -1
    /\ ~AnyError
    /\ value["motorLeft"] = 99
    /\ IsConst(pAnimation["motorLeft"], 0)
    /\ \A l \in Leds : IsBlink(pAnimation[l], LedRange, 500, 50)

\* C14: when state.sync returns it has printed the status snapshot exactly
\* once if the status command was applied since the previous sync and not at
\* all otherwise, the snapshot shows the values the devices' ticks of this
\* sync produced, and the request flag is clear; the flag is only ever set
\* between a status command and the sync that follows it.
C14_StatusOneShot ==
    /\ SyncEnded =>
          /\ Len(snapshot) = (IF commandCode = "S" THEN 1 ELSE 0)
          /\ snapshot # << >> => snapshot[1] = value
          /\ ~showStatus
    /\ showStatus => (pc = "sync" /\ commandCode = "S")

\* a snapshot printed by the sync that read a fault: it shows the speed of
\* this sync's tick
C14_Witness ==
    /\ SyncEnded /\ commandCode = "S"
    /\ Len(snapshot) = 1
    /\ snapshot[1]["motorLeft"] = 99
    /\ AnyError
    /\ ~showStatus

\* C19 (as claimed): when state.sync(now) is called, now is at or after the
\* start time of the animation of every actuator.
C19_ClockPrecondition ==
    pc = "sync" =>
        \A d \in Actuators : now >= pAnimation[d].startTimeMillis

---------------------------------------------------------------------------
(* Properties of the device loops (SpecTicks) *)

\* every device of S visited so far comes before every device of T
VisitedBefore(S, T) ==
    \A p, q \in 1 .. Len(harness.order) :
        (harness.order[p] \in T /\ harness.order[q] \in S) => q < p

\* C15 (as claimed): in state.sync and in state.init the devices are visited
\* in one fixed order, both motors before all four LEDs and all LEDs before
\* any hall sensor.
C15_TickOrder ==
    /\ \A p \in 1 .. Len(harness.order) : harness.order[p] = devices[p]
    /\ VisitedBefore(Motors, Leds)
    /\ VisitedBefore(Leds, HallSensors)

\* C15 (amended): in state.sync and in state.init the devices are visited
\* in one fixed order, both motors before all four hall sensors and all hall
\* sensors before any LED.
C15_TickOrderAmended ==
    /\ \A p \in 1 .. Len(harness.order) : harness.order[p] = devices[p]
    /\ VisitedBefore(Motors, HallSensors)
    /\ VisitedBefore(HallSensors, Leds)

\* a sync has visited all ten devices: a hall sensor third, an LED last
C15_Witness ==
    /\ pc = "sync"
    /\ Len(harness.order) = 10
    /\ harness.order[3] \in HallSensors
    /\ harness.order[10] \in Leds
    /\ \A d \in Devices : lastSyncTimeMillis[d] = 500

\* C16: each of the ten devices is initialised exactly once, in setup(),
\* before any device is synced; every iteration of loop() performs exactly
\* one state.sync, whatever was received; and when the sync returns each
\* device's lastSyncTimeMillis is the now of that sync.
C16_Lifecycle ==
    /\ Len(devices) = 10 /\ Cardinality(Devices) = 10
    /\ \A d \in Devices : harness.inits[d] <= 1
    /\ pc # "setup" => \A d \in Devices : harness.inits[d] = 1
    /\ pc = "setup" => \A d \in Devices : lastSyncTimeMillis[d] = 0
    /\ pc = "sync" => harness.syncs = 0
    /\ SyncEnded =>
          /\ harness.syncs = 1
          /\ \A d \in Devices : lastSyncTimeMillis[d] = now

\* the second iteration received an unknown code and has synced every device
C16_Witness ==
    /\ SyncEnded
    /\ commandCode = "X"
    /\ now = 500
    /\ harness.syncs = 1
    /\ \A d \in Devices : harness.inits[d] = 1 /\ lastSyncTimeMillis[d] = 500

---------------------------------------------------------------------------
(* Properties of the motor outputs (SpecMotor) *)

\* C17 (as claimed): after a motor tick the value written to the PWM output
\* is the magnitude of speed * 255 / 99, a value in 0..255, never negative.
C17_PwmMagnitude ==
    harness.stage = "ticked" =>
        LET speed == value["motorLeft"]
            mag == ((IF speed < 0 THEN -speed ELSE speed) * 255) \div 99
        IN  /\ pins["motorLeft"].pwm = mag
            /\ pins["motorLeft"].pwm >= 0
            /\ pins["motorLeft"].pwm <= 255

\* C18 (as claimed): after a motor tick, pin A is HIGH and pin B LOW iff
\* speed < 0, pin A LOW and pin B HIGH iff speed > 0, both are LOW iff
\* speed = 0, and pwm is 0 only for speed 0; in no state are both direction
\* pins HIGH.
C18_DirectionPins ==
    LET speed == value["motorLeft"]
        p == pins["motorLeft"]
    IN  /\ ~(p.inA = "HIGH" /\ p.inB = "HIGH")
        /\ harness.stage = "ticked" =>
              /\ (p.inA = "HIGH" /\ p.inB = "LOW") <=> speed < 0
              /\ (p.inA = "LOW" /\ p.inB = "HIGH") <=> speed > 0
              /\ (p.inA = "LOW" /\ p.inB = "LOW") <=> speed = 0
              /\ p.pwm = 0 <=> speed = 0

\* C18 (amended): after a motor tick the pins are as claimed and pwm is 0
\* only for speed 0; both direction pins are never HIGH outside a tick, and
\* within a tick they are both HIGH only between the write of pin A and the
\* write of pin B of a tick that turns the motor to reverse.
C18_DirectionPinsAmended ==
    LET speed == value["motorLeft"]
        p == pins["motorLeft"]
    IN  /\ (p.inA = "HIGH" /\ p.inB = "HIGH") =>
              (harness.stage = "pinA" /\ speed < 0)
        /\ harness.stage = "ticked" =>
              /\ (p.inA = "HIGH" /\ p.inB = "LOW") <=> speed < 0
              /\ (p.inA = "LOW" /\ p.inB = "HIGH") <=> speed > 0
              /\ (p.inA = "LOW" /\ p.inB = "LOW") <=> speed = 0
              /\ p.pwm = 0 <=> speed = 0

\* a motor running forward is ticked at the slowest reverse speed: pin A is
\* already HIGH, pin B is still HIGH from the tick before
C18_Witness ==
    /\ harness.stage = "pinA"
    /\ harness.speed = -1
    /\ value["motorLeft"] = -1
    /\ pins["motorLeft"].inA = "HIGH"
    /\ pins["motorLeft"].inB = "HIGH"
    /\ pins["motorLeft"].pwm > 0

---------------------------------------------------------------------------
(* Properties of the LED commands (SpecLights) *)

\* C12: lights(on) starts, on each LED, a 1000 ms ramp from the LED's
\* brightness at the call to 99 (on) or 0 (off); while that ramp is the LED's
\* animation, a tick 500 ms after the call of a ramp from 0 to 99 gives 49,
\* and every tick 1000 ms or more after the call gives the target.
C12_LightsRamp ==
    \A l \in Leds :
        LET a == pAnimation[l]
        IN  /\ (pc = "sync" /\ commandCode \in {"L", "O"}) =>
                  /\ a.kind = "LinearAnimation"
                  /\ a.startTimeMillis = clock
                  /\ a.startValue = value[l]
                  /\ a.endValue = (IF commandCode = "L" THEN 99 ELSE 0)
            /\ (SyncEnded /\ a.kind = "LinearAnimation") =>
                  /\ (now = a.startTimeMillis + 500
                        /\ a.startValue = 0 /\ a.endValue = 99) => value[l] = 49
                  /\ now >= a.startTimeMillis + 1000 => value[l] = a.endValue

\* lights(false) was called a quarter into lights(true), at brightness 24,
\* and the LEDs are dark 1000 ms later
C12_Witness ==
    /\ SyncEnded
    /\ \A l \in Leds :
          /\ pAnimation[l].kind = "LinearAnimation"
          /\ pAnimation[l].startValue = 24
          /\ pAnimation[l].endValue = 0
          /\ now = pAnimation[l].startTimeMillis + 1000
          /\ value[l] = 0

---------------------------------------------------------------------------
(* Properties of the actuators (SpecApi) *)

\* C5: after setValueNow(v) and a tick, the actuator's value is v clamped
\* into its range: [0,99] for an LED, [-99,99] for a motor.
C5_SetValueNowClamps ==
    LET d == harness.actuator
        a == pAnimation[d]
        lo == IF d \in Leds THEN 0 ELSE -99
    IN  (harness.ticked /\ a.kind = "ConstValue") =>
           value[d] = (IF a.value > 99 THEN 99
                       ELSE IF a.value < lo THEN lo ELSE a.value)

\* the motor was told the lowest int and ticked
C5_Witness ==
    /\ harness.ticked
    /\ harness.actuator = "motorLeft"
    /\ IsConst(pAnimation["motorLeft"], -32768)
    /\ value["motorLeft"] = -99

\* C6: every LED's brightness is in [0,99] and every motor's speed in
\* [-99,99], in every state.
C6_ValuesInRange ==
    /\ \A l \in Leds : value[l] >= 0 /\ value[l] <= 99
    /\ \A m \in Motors : value[m] >= -99 /\ value[m] <= 99

\* an LED has been ticked to the end of a ramp to the highest int
C6_Witness ==
    /\ harness.ticked
    /\ harness.actuator = "ledLeftFront"
    /\ pAnimation["ledLeftFront"].kind = "LinearAnimation"
    /\ pAnimation["ledLeftFront"].endValue = 32767
    /\ now >= pAnimation["ledLeftFront"].startTimeMillis
                 + pAnimation["ledLeftFront"].durationMillis
    /\ value["ledLeftFront"] = 99

\* C11: after stopAnimation(), every tick leaves the actuator's value equal
\* to the value it had at the call, until another mutator is called; a ramp
\* to a target that was ticked at or after its end and then stopped stays at
\* the target (clamped into the actuator's range).
C11_StopFreezes ==
    LET d == harness.actuator
        lo == IF d \in Leds THEN 0 ELSE -99
    IN  (harness.frozen /\ harness.ticked) =>
           /\ value[d] = harness.pinned
           /\ (harness.stopped = "LinearAnimation" /\ harness.ended) =>
                 value[d] = (IF harness.target > 99 THEN 99
                             ELSE IF harness.target < lo THEN lo
                             ELSE harness.target)

\* a ramp from 0 to 99 over 3 ms was stopped at a third and ticked later
C11_Witness ==
    /\ harness.frozen /\ harness.ticked
    /\ harness.stopped = "LinearAnimation"
    /\ ~harness.ended
    /\ harness.target = 99
    /\ value[harness.actuator] = 33
    /\ now > pAnimation[harness.actuator].startTimeMillis

---------------------------------------------------------------------------
(* Properties of the animations (SpecLinear, SpecBlink) *)

\* division truncating toward zero, for a positive divisor
TruncDiv(x, y) == IF x >= 0 THEN x \div y ELSE -((-x) \div y)

\* C7 (as claimed): for duration > 0, calcValue(start) = startValue,
\* calcValue(start + duration) = endValue, on [start, start + duration]
\* calcValue(t) = startValue + ((t - start) * (endValue - startValue)) /
\* duration truncated toward zero, and calcValue is non-decreasing in t when
\* endValue >= startValue, non-increasing otherwise.
C7_LinearFormula ==
    LET a == harness.a
        e == harness.t - a.startTimeMillis
    IN  (harness.done /\ a.durationMillis > 0
           /\ e >= 0 /\ e <= a.durationMillis) =>
            /\ e = 0 => harness.result = a.startValue
            /\ e = a.durationMillis => harness.result = a.endValue
            /\ harness.result =
                  a.startValue
                    + TruncDiv(e * (a.endValue - a.startValue), a.durationMillis)
            /\ e < a.durationMillis =>
                  IF a.endValue >= a.startValue
                  THEN harness.result <= harness.next
                  ELSE harness.result >= harness.next

\* C7, for ramps whose span endValue - startValue fits an int: the same
\* statement holds
C7_LinearFormulaWithinInt ==
    (harness.done
       /\ harness.a.endValue - harness.a.startValue >= IntMin
       /\ harness.a.endValue - harness.a.startValue <= IntMax) =>
        C7_LinearFormula

\* C20 (as claimed): for any duration, positive, zero or negative, and any
\* t before the start time, calcValue(t) = startValue.
C20_BeforeStart ==
    (harness.done /\ harness.t < harness.a.startTimeMillis) =>
        harness.result = harness.a.startValue

\* C20, for durations >= 0: the same statement holds
C20_BeforeStartNonNegative ==
    (harness.done /\ harness.a.durationMillis >= 0) => C20_BeforeStart

\* C8: for period P > 0, requested duty D clamped to D' in [0,100] and
\* t >= startTime, calcValue(t) is range.max when (t - startTime) mod P <
\* floor(P * D' / 100) and range.min otherwise; in any window of P
\* milliseconds it is range.max for exactly floor(P * D' / 100) of them.
C8_BlinkFormula ==
    harness.done =>
        LET a == harness.a
            D == IF harness.duty > 100 THEN 100
                 ELSE IF harness.duty < 0 THEN 0 ELSE harness.duty
            P == a.periodMillis
        IN  /\ harness.result =
                  (IF (harness.t - a.startTimeMillis) % P < (P * D) \div 100
                   THEN a.range.maxValue ELSE a.range.minValue)
            /\ harness.high = (P * D) \div 100

\* a 7 ms blink at a third: high for 2 ms of a window that starts mid-cycle
C8_Witness ==
    /\ harness.done
    /\ harness.duty = 33
    /\ harness.a.periodMillis = 7
    /\ harness.t = harness.a.startTimeMillis + 3
    /\ harness.result = harness.a.range.minValue
    /\ harness.high = 2

---------------------------------------------------------------------------
(* Properties of degenerate animations (SpecDegenerate) *)

\* C21 (as claimed): no tick divides or takes a remainder by zero;
\* after animateLinearly(target, 0) every tick leaves the target, clamped,
\* and after animateMeander(0, duty) every tick leaves a value in the
\* actuator's range.
C21_NoDivisionByZero ==
    harness.ticked =>
        LET d == harness.actuator
        IN  /\ 0 \notin harness.divisors
            /\ harness.call = "animateLinearly" =>
                   value[d] = fit(getRange(d), harness.target)
            /\ harness.call = "animateMeander" =>
                   /\ value[d] >= getRange(d).minValue
                   /\ value[d] <= getRange(d).maxValue

\* C21, the ramp alone: animateLinearly(target, 0) never divides and every
\* tick leaves the clamped target
C21_ZeroDurationJumps ==
    (harness.ticked /\ harness.call = "animateLinearly") =>
        /\ harness.divisors = {}
        /\ value[harness.actuator] =
              fit(getRange(harness.actuator), harness.target)

---------------------------------------------------------------------------
(* Properties of the hall sensors (SpecHall) *)

\* C22: from detachInterrupt to attachInterrupt in a sensor's onSync no
\* handler is attached, so no increment falls between the read of the
\* counter and its reset: the increments a handler has made are the counts
\* the rpm computations have read plus what the counter holds (nothing once
\* the counter is read and until it is reset).
C22_Handoff ==
    /\ harness.stage \in {"detached", "read", "stamped", "reset"} =>
           harness.handler = -1
    /\ \A i \in 0..3 :
          harness.made[i] =
              harness.used[i]
                + (IF harness.stage \in {"read", "stamped"} /\ harness.k = i
                   THEN 0 ELSE halfRevolutions[i])

\* two updates of sensor 0: increments made after its first reset were read
\* by its second rpm computation, and a later one waits in the counter of
\* sensor 3
C22_Witness ==
    /\ harness.stage = "idle"
    /\ harness.used[0] >= 1
    /\ harness.used[3] >= 1
    /\ halfRevolutions[3] >= 1

\* a step of a sensor's tick (not an edge of the interrupt) does what C23
\* says of it
RpmUpdateAsClaimed ==
    LET k == harness.k
        h == hallOfId(k)
    IN  harness'.edges = harness.edges =>
           /\ (harness.stage = "check" /\ k <= 3) =>
                 /\ harness'.stage = "detached" <=>
                        now > lastTimeMillis[h] + updatePeriodMillis
                 /\ UNCHANGED << rpm, lastTimeMillis, halfRevolutions >>
           /\ harness.stage = "detached" =>
                 /\ now - lastTimeMillis[h] > 0
                 /\ rpm'[h] = (halfRevolutions[k] * 60000)
                                 \div (2 * (now - lastTimeMillis[h]))
           /\ harness.stage = "read" => lastTimeMillis'[h] = now
           /\ harness.stage = "stamped" => halfRevolutions'[k] = 0

\* the rpm computation of this step overflowed int and wrapped
RpmWrapped ==
    /\ harness.stage = "detached"
    /\ rpm'[hallOfId(harness.k)] #
          HallRpm(halfRevolutions[harness.k],
                  now - lastTimeMillis[hallOfId(harness.k)], "exact")

\* C23 (as claimed): a sensor's tick recomputes rpm only when now >
\* lastTimeMillis + updatePeriodMillis; when it does, with c the counter and
\* elapsed = now - lastTimeMillis, it sets rpm to (c * 60000) / (2 * elapsed),
\* truncated, then lastTimeMillis to now and the counter to 0; otherwise the
\* tick leaves rpm, lastTimeMillis and the counter unchanged.
C23_RpmUpdate == [][RpmUpdateAsClaimed]_vars

\* C23, when the build computes the int product in a wider register: the
\* same statement holds
C23_RpmUpdateExact == [][RpmWrapped \/ RpmUpdateAsClaimed]_vars

---------------------------------------------------------------------------
(* Properties of the animation slot (SpecSlot) *)

\* the animation the last call of a run installs when taken alone
LastCallAlone ==
    LET c == harness.last
    IN  CASE c.call = "setValueNow"     -> ConstValue(c.t, c.v)
          [] c.call = "animateLinearly" ->
                LinearAnimation(c.t, c.from, c.v, c.durationMillis)
          [] c.call = "animateMeander"  ->
                BlinkingAnimation(c.t, getRange(harness.actuator),
                                  c.periodMillis, c.dutyCycle)
          [] c.call = "stopAnimation"   -> ConstValue(c.t, c.from)

\* C24: every actuator holds one animation; after a run of mutator calls
\* with no tick in between, the animation is the one the last call alone
\* installs (a ramp starting from the value the last tick left) and every
\* later tick stores that animation's value, clamped.
C24_SingleSlot ==
    /\ \A d \in Actuators :
          pAnimation[d].kind \in
              {"ConstValue", "LinearAnimation", "BlinkingAnimation"}
    /\ harness.calls >= 1 =>
          /\ pAnimation[harness.actuator] = LastCallAlone
          /\ harness.ticked =>
                value[harness.actuator] =
                    setValue(harness.actuator,
                             calcValue(LastCallAlone, now, harness.ub))

\* a ramp to 50 requested right after a ramp to -100 and before any tick,
\* on a motor a tick had left at 99, and ticked one millisecond later
C24_Witness ==
    /\ harness.actuator = "motorLeft"
    /\ harness.calls = 2
    /\ harness.earlier = "animateLinearly"
    /\ harness.last.call = "animateLinearly"
    /\ harness.last.from = 99
    /\ harness.last.v = 50
    /\ harness.last.durationMillis = 3
    /\ harness.ticked
    /\ now = harness.last.t + 1
    /\ value["motorLeft"] = 83

---------------------------------------------------------------------------
(* Properties of the firmware, continued (Spec) *)

\* C25 (as claimed): a sync that starts with a motor's error flag set (set
\* by the previous sync, no recover since) writes PWM duty 0 and LOW on both
\* direction pins of both motors, whatever command was applied before it.
C25_FaultKeepsMotorsOff ==
    [][ (pc = "sync" /\ AnyError) =>
            \A m \in Motors :
               /\ pins'[m].pwm = 0
               /\ pins'[m].inA = "LOW"
               /\ pins'[m].inB = "LOW" ]_vars

---------------------------------------------------------------------------
(* Properties of the command reader (SpecReader) *)

\* C26 (as claimed): whatever bytes came before, a known command received
\* after a separator is eventually returned by getData and dispatched, and
\* a full receive buffer is eventually read from.
C26_ReaderLive ==
    /\ harness.known ~> (harness.dispatched = "L")
    /\ (Len(harness.serial) = MaxSerial) ~> (Len(harness.serial) < MaxSerial)

\* C26, while IO::data never holds MAX_COMMAND_LENGTH characters: the
\* command is dispatched
C26_ReaderLiveUnlessFull ==
    [](Len(harness.data) < MAX_COMMAND_LENGTH) =>
        (harness.known ~> (harness.dispatched = "L"))

---------------------------------------------------------------------------
(* Properties of the operations of TankState (SpecMethods) *)

\* C27: with no motor error flag set, stop, leftMotor and rightMotor change
\* no LED's animation or brightness, leftMotor changes the left motor's
\* animation only and rightMotor the right motor's only; lights, blinkLeft
\* and blinkRight change no motor's animation, speed or error flag; status
\* and recover change no animation.
C27_CommandIsolation ==
    [][ LET call == harness'.call
            same(S) == \A d \in S : pAnimation'[d] = pAnimation[d]
        IN  /\ (call \in {"stop", "leftMotor", "rightMotor"} /\ ~AnyError) =>
                  /\ same(Leds)
                  /\ \A l \in Leds : value'[l] = value[l]
            /\ (call = "leftMotor" /\ ~AnyError) =>
                  same(Actuators \ {"motorLeft"})
            /\ (call = "rightMotor" /\ ~AnyError) =>
                  same(Actuators \ {"motorRight"})
            /\ call \in {"lights", "blinkLeft", "blinkRight"} =>
                  /\ same(Motors)
                  /\ \A m \in Motors : value'[m] = value[m] /\ error'[m] = error[m]
            /\ call \in {"status", "recover"} => same(Actuators) ]_vars

\* leftMotor(50) was called while the left LEDs blink and the right motor
\* holds -25: the blink and the right motor's animation are still there
C27_Witness ==
    /\ harness.call = "leftMotor"
    /\ ~AnyError
    /\ IsConst(pAnimation["motorLeft"], 50)
    /\ IsConst(pAnimation["motorRight"], -25)
    /\ BlinkLeftRunning
    /\ value["ledLeftFront"] = 99

=============================================================================
